---- MODULE Spec2Model ----
(***************************************************************************)
(* One run of the code reviewer (ohnotnow/code-reviewer).                  *)
(*                                                                         *)
(* The driver is main() of main.py: repository check, resolution of the    *)
(* review target (an explicit file, or the changes git reports), dispatch  *)
(* to the model, display.  The repository holds two sets of the functions  *)
(* the driver calls: the ones main.py defines itself and the ones of the   *)
(* code_reviewer package (review_operations.py, git_helper.py,             *)
(* review_engine.py, file_utils.py).  `impl` says which set a run is bound *)
(* to, so that both are checked.                                           *)
(*                                                                         *)
(* Text (file content, diff output, prompt) is a sequence of one-character *)
(* strings.  Every external interaction (a git invocation, a file read,    *)
(* the console prompt, the completion call) is one step whose result is    *)
(* chosen by the environment, and is appended to `calls`.                  *)
(***************************************************************************)
EXTENDS Integers, Sequences, FiniteSets, TLC

\* ---------------------------------------------------------------- bounds
\* Longest text the environment produces (file content, tool stdout, prompt).
MaxLen == 3
\* Largest line-count ceiling a run is configured with (ceilings are 1..MaxCeiling).
MaxCeiling == 2
\* Largest token ceiling a run is configured with (0 or MaxTokenCeiling).
MaxTokenCeiling == 3
\* Longest listing (number of entries) git prints in one invocation.
MaxEntries == 2
\* Longest system prompt a prompt file holds.
MaxPromptLen == 1
\* Longest --since token the time resolver is tried on.
MaxTimeLen == 3
\* Longest message content the model answers with.
MaxAnswerLen == 2
\* Most blank lines added to or taken out of a content that is counted again.
MaxEdits == 2

\* ------------------------------------------------------------------ text
None == "None"

\* The None of a variable that otherwise holds a text.
NoText == <<None>>

\* exit_code while the process runs.
NotExited == 0 - 1

Chars == {"x", "\n"}

RECURSIVE StringsUpTo(_)
StringsUpTo(n) ==
  IF n = 0 THEN {<<>>}
  ELSE LET shorter == StringsUpTo(n - 1)
       IN  shorter \cup {Append(s, c) : s \in {t \in shorter : Len(t) = n - 1}, c \in Chars}

Strings == StringsUpTo(MaxLen)

Prompts == StringsUpTo(MaxPromptLen)

IsSpace(c) == c \in {" ", "\n", "\t"}

RECURSIVE lstrip(_)
lstrip(s) == IF s # <<>> /\ IsSpace(Head(s)) THEN lstrip(Tail(s)) ELSE s

RECURSIVE rstrip(_)
rstrip(s) ==
  IF s # <<>> /\ IsSpace(s[Len(s)]) THEN rstrip(SubSeq(s, 1, Len(s) - 1)) ELSE s

\* str.strip()
strip(s) == rstrip(lstrip(s))

\* str.split('\n'): the pieces between newlines, empty pieces kept.
RECURSIVE split_lines(_)
split_lines(s) ==
  IF \A i \in 1..Len(s) : s[i] # "\n" THEN <<s>>
  ELSE LET i == CHOOSE k \in 1..Len(s) : s[k] = "\n" /\ \A j \in 1..(k - 1) : s[j] # "\n"
       IN  <<SubSeq(s, 1, i - 1)>> \o split_lines(SubSeq(s, i + 1, Len(s)))

count_lines_mut_all(content) == Len(split_lines(content))

\* len([line for line in content.split('\n') if line.strip()])
count_lines(content) ==
  Cardinality({i \in 1..Len(split_lines(content)) : strip(split_lines(content)[i]) # <<>>})

\* line_count before count_lines is called.
NotCounted == 0 - 1

\* '\n'.join(lines)
RECURSIVE join_lines(_)
join_lines(lines) ==
  IF lines = <<>> THEN <<>>
  ELSE IF Len(lines) = 1 THEN lines[1]
  ELSE lines[1] \o <<"\n">> \o join_lines(Tail(lines))

\* The contents count_lines is tried on: lines of x and spaces.
CountChars == {"x", " ", "\n"}

RECURSIVE TextsUpTo(_, _)
TextsUpTo(chars, n) ==
  IF n = 0 THEN {<<>>}
  ELSE LET shorter == TextsUpTo(chars, n - 1)
       IN  shorter \cup {Append(t, c) : t \in {u \in shorter : Len(u) = n - 1}, c \in chars}

CountInputs == TextsUpTo(CountChars, MaxLen)

\* A blank line: empty, or white space only.
BlankLines == {<<>>, <<" ">>}

\* The content with a blank line put in before line k (after the last line
\* for k = Len + 1).
with_blank_line(c, k, blank) ==
  LET lines == split_lines(c)
  IN  join_lines(SubSeq(lines, 1, k - 1) \o <<blank>> \o SubSeq(lines, k, Len(lines)))

\* The content with its line k taken out.
without_line(c, k) ==
  LET lines == split_lines(c)
  IN  join_lines(SubSeq(lines, 1, k - 1) \o SubSeq(lines, k + 1, Len(lines)))

\* The backquote character, one element of a text (written BQ: a string
\* literal of this language cannot hold the character itself).
BQ == "BQ"

\* The diff between an opening fence line (three backquotes and the word diff)
\* and a closing fence line (three backquotes).
wrap_diff(diff_content) ==
  <<BQ, BQ, BQ, "d", "i", "f", "f", "\n">> \o diff_content \o <<"\n", BQ, BQ, BQ>>

\* str.lower(), on the characters the model uses
lower_char(c) == IF c = "Y" THEN "y" ELSE IF c = "N" THEN "n" ELSE IF c = "H" THEN "h" ELSE c

lower(s) == [i \in 1..Len(s) |-> lower_char(s[i])]

\* ------------------------------------------------------------- the tools
\* Files git may name: [stem, suffix] (Path(filename).suffix is the suffix).
a_py == [stem |-> "a", suffix |-> ".py"]

b_js == [stem |-> "b", suffix |-> ".js"]

notes_txt == [stem |-> "notes", suffix |-> ".txt"]

gone_py == [stem |-> "gone", suffix |-> ".py"]

FileNames == {a_py, b_js, notes_txt, gone_py}

\* Path(filename).exists(): gone_py was removed since the snapshot.
OnDisk == {a_py, b_js, notes_txt}

\* config.supported_extensions
supported_extensions == {".php", ".py", ".js"}

is_supported_file(filename) == filename.suffix \in supported_extensions

\* The two-character status codes of git status --porcelain.
StatusCodes == {<<" ", "M">>, <<" ", "D">>, <<"?", "?">>}

\* One line of a listing; a name-only listing carries no status.
NoStatus == <<>>

StatusLines == [status : StatusCodes, name : FileNames]

NameLines == [status : {NoStatus}, name : FileNames]

RECURSIVE ListingsOf(_, _)
ListingsOf(lines, n) ==
  IF n = 0 THEN {<<>>}
  ELSE LET shorter == ListingsOf(lines, n - 1)
       IN  shorter \cup
           {Append(l, e) : l \in {t \in shorter : Len(t) = n - 1},
                           e \in {x \in lines : TRUE}}

\* git names a path once in a listing.
DistinctNames(l) == \A i, j \in 1..Len(l) : i # j => l[i].name # l[j].name

StatusListings == {l \in ListingsOf(StatusLines, MaxEntries) : DistinctNames(l)}

NameListings == {l \in ListingsOf(NameLines, MaxEntries) : DistinctNames(l)}

\* line = line.strip(); status = line[:2]: the first two characters of what
\* is left of "XY name" once a leading space is gone.
parsed_status(status) == SubSeq(lstrip(status \o <<" ">>), 1, 2)

has_deleted_marker_mut_never(status) == FALSE

\* if 'D' in status: continue
has_deleted_marker(status) == \E i \in 1..Len(status) : status[i] = "D"

keeps_line(line, with_status) ==
  /\ ~(with_status /\ has_deleted_marker(parsed_status(line.status)))
  /\ is_supported_file(line.name)
  /\ line.name \in OnDisk

RECURSIVE extract_supported_files_mut_reversed(_, _)
extract_supported_files_mut_reversed(output, with_status) ==
  IF output = <<>> THEN <<>>
  ELSE extract_supported_files_mut_reversed(Tail(output), with_status)
       \o (IF keeps_line(Head(output), with_status)
           THEN <<Head(output).name>> ELSE <<>>)

\* for line in git_output.splitlines(): ... changed_files.append(filename)
RECURSIVE extract_supported_files(_, _)
extract_supported_files(output, with_status) ==
  IF output = <<>> THEN <<>>
  ELSE (IF keeps_line(Head(output), with_status)
        THEN <<Head(output).name>> ELSE <<>>)
       \o extract_supported_files(Tail(output), with_status)

\* Commit references: the one the user passes to --since-commit, and the one
\* rev-list prints for a time.
UserCommit == "c0ffee"

TimeCommit == "abc123"

\* --since tokens
T_2h == <<"2", "h">>

T_soon == <<"s", "o", "o", "n">>

TimeTokens == {T_2h, T_soon}

T_today == <<"t", "o", "d", "a", "y">>

\* The characters the time resolver is tried on.
TimeChars == {"0", "2", "h", "H", "d", "x", "-", " "}

RECURSIVE TokensUpTo(_)
TokensUpTo(n) ==
  IF n = 0 THEN {<<>>}
  ELSE LET shorter == TokensUpTo(n - 1)
       IN  shorter \cup
           {Append(s, c) : s \in {t \in shorter : Len(t) = n - 1}, c \in TimeChars}

\* More days than there are between the first day of year 1 and now.
T_9999999d == <<"9", "9", "9", "9", "9", "9", "9", "d">>

\* Every token of up to MaxTimeLen characters, two words, and a long time.
ResolverTokens ==
  (TokensUpTo(MaxTimeLen) \ {<<>>}) \cup {T_today, T_soon, T_9999999d}

Digits == {"0", "1", "2", "3", "4", "5", "6", "7", "8", "9"}

valid_time_format_mut_any_unit(time_str) ==
  \/ time_str = T_today
  \/ /\ Len(time_str) >= 2
     /\ time_str[Len(time_str)] \notin Digits
     /\ \A i \in 1..(Len(time_str) - 1) : time_str[i] \in Digits

\* re.match(r'^(\d+)([hmd])$', time_str), or 'today'
valid_time_format(time_str) ==
  \/ time_str = T_today
  \/ /\ Len(time_str) >= 2
     /\ time_str[Len(time_str)] \in {"h", "m", "d"}
     /\ \A i \in 1..(Len(time_str) - 1) : time_str[i] \in Digits

\* time_str = time_str.strip().lower()
normalised(time_str) == lower(strip(time_str))

parses(time_spec) == valid_time_format(normalised(time_spec))

digit_value(c) ==
  CASE c = "0" -> 0 [] c = "1" -> 1 [] c = "2" -> 2 [] c = "3" -> 3 [] c = "4" -> 4
    [] c = "5" -> 5 [] c = "6" -> 6 [] c = "7" -> 7 [] c = "8" -> 8 [] c = "9" -> 9

\* int(match.group(1))
RECURSIVE int_of(_)
int_of(digits) ==
  IF digits = <<>> THEN 0
  ELSE 10 * int_of(SubSeq(digits, 1, Len(digits) - 1)) + digit_value(digits[Len(digits)])

amount_of(time_str) == int_of(SubSeq(time_str, 1, Len(time_str) - 1))

unit_of(time_str) == time_str[Len(time_str)]

\* timedelta(hours=1), timedelta(minutes=1), timedelta(days=1), in minutes
unit_minutes(unit) ==
  CASE unit = "h" -> 60 [] unit = "m" -> 1 [] unit = "d" -> 1440

\* if unit == 'h' ... elif unit == 'm' ... elif unit == 'd': one of them, for
\* a token the pattern matched; else raise ValueError("Invalid time unit")
known_unit(time_str) == time_str = T_today \/ unit_of(time_str) \in {"h", "m", "d"}

\* datetime.now(), in minutes since datetime.min (0001-01-01 00:00): a day of
\* November 2026, at midnight.
Now == 1065492000

\* now - timedelta(...) is before datetime.min: OverflowError("date value out
\* of range").  (amount * unit > now, written without the product.)
date_out_of_range(time_str) ==
  /\ time_str # T_today
  /\ amount_of(time_str) > Now \div unit_minutes(unit_of(time_str))

\* What parse_time_duration returns for a normalised token it accepts and can
\* represent: midnight of today, or now less the amount.
parse_time_duration(time_str) ==
  IF time_str = T_today THEN Now - (Now % 1440)
  ELSE Now - amount_of(time_str) * unit_minutes(unit_of(time_str))

\* if since_time: a str that is neither None nor empty
truthy(s) == s # NoText /\ s # <<>>

\* What the user types at a confirmation.
Responses == {<<"y">>, <<"Y">>, <<"n">>, <<>>}

user_confirms_mut_default_yes(response) == lower(response) \in {<<"y">>, <<>>}

\* if response.lower() != 'y': raise UserCancelledError(...)
user_confirms(response) == lower(response) = <<"y">>

ReportFile == "report.py"

\* config.token_estimate_chars_per_token
token_estimate_chars_per_token == 4

\* --prompt-file
PromptFile == "prompt.md"

\* A prompt file is missing, exists but cannot be read (PermissionError,
\* UnicodeDecodeError), or can be read.
FileStates == {"missing", "unreadable", "readable"}

\* The prompt_file argument and the state of the three files.
PromptSources ==
  [prompt_file : {None, PromptFile}, explicit : FileStates, home : FileStates,
   bundled : FileStates]

\* Spec draws the sources when get_review asks for the prompt and does not
\* keep them.
NoSources ==
  [prompt_file |-> None, explicit |-> "missing", home |-> "missing",
   bundled |-> "missing"]

\* for prompt_path in default_prompt_locations: a location that does not
\* exist or cannot be read is passed over.
RECURSIVE first_default(_, _, _)
first_default(sources, locations, tried) ==
  IF locations = <<>>
  THEN [ok |-> FALSE, source |-> None, tried |-> tried]
  ELSE IF sources[Head(locations)] = "readable"
  THEN [ok |-> TRUE, source |-> Head(locations),
        tried |-> Append(tried, Head(locations))]
  ELSE first_default(sources, Tail(locations), Append(tried, Head(locations)))

get_system_prompt_mut_fallthrough(sources) ==
  first_default(sources,
                IF sources.prompt_file # None THEN <<"explicit", "home", "bundled">>
                ELSE <<"home", "bundled">>, <<>>)

\* get_system_prompt(prompt_file): which file it returns the text of, or that
\* it raises FileError, and the files it looked at.
get_system_prompt(sources) ==
  IF sources.prompt_file # None
  THEN [ok |-> sources.explicit = "readable",
        source |-> IF sources.explicit = "readable" THEN "explicit" ELSE None,
        tried |-> <<"explicit">>]
  ELSE first_default(sources, <<"home", "bundled">>, <<>>)

\* ----------------------------------------------------------------- state
VARIABLES
  git_output,     \* extract_supported_files: git_output, as lines (LocatorSpec only)
  parse_status,   \* extract_supported_files: parse_status (LocatorSpec only)
  prompt_sources, \* get_system_prompt: prompt_file and the files it finds (PromptSpec only)
  line_count,     \* what count_lines returned (CountSpec only)
  impl,           \* "main": the functions main.py defines; "package": code_reviewer's
  args,           \* the parsed command line
  config,         \* Config, read once
  pc,             \* where the run is
  diff_mode,      \* review_git_changes: diff_mode
  since_commit,   \* review_git_changes: since_commit (reassigned by the time lookup)
  changed_files,  \* review_git_changes: changed_files
  text,           \* the file content or diff a resolution holds before it returns
  content,        \* what resolution returned (NoText until it does)
  system_prompt,  \* get_review: system_prompt
  review,         \* what get_review returned
  exc,            \* the exception that ended the run
  exit_code,      \* the process's exit code (NotExited while running)
  calls           \* every external interaction so far, in order

vars == <<git_output, parse_status, prompt_sources, line_count, impl, args, config, pc, diff_mode, since_commit, changed_files, text,
          content, system_prompt, review, exc, exit_code, calls>>

\* An exception: its class, which failure of the design its message states,
\* the number its message names (the estimated token count of "Content too
\* large"), and, when it was built from a caught exception by
\* LLMError(f"Error getting review from LLM: {e}"), the class of that one.
\* and the token its message quotes ("Invalid time format: '...'").
NoExc == [cls |-> None, why |-> None, n |-> 0, wraps |-> None, token |-> NoText]

Raised(cls, why) ==
  [cls |-> cls, why |-> why, n |-> 0, wraps |-> None, token |-> NoText]

RaisedWith(cls, why, n) ==
  [cls |-> cls, why |-> why, n |-> n, wraps |-> None, token |-> NoText]

RaisedQuoting(cls, why, token) ==
  [cls |-> cls, why |-> why, n |-> 0, wraps |-> None, token |-> token]

\* What a failing completion() or completion_cost() says.
LowLevelMessages == {"timeout", "rate limited"}

\* An exception of litellm or below: not one of the ReviewError classes.
LowLevel(msg) == Raised("Exception", msg)

git_argv_mut_stash(op) == <<"git", "stash">>

\* The command run_command is given for an operation, up to its options
\* (before the references and the files); none for what is not asked of git.
git_argv(op) ==
  CASE op = "rev-parse" -> <<"git", "rev-parse", "--git-dir">>
    [] op = "rev-list" -> <<"git", "rev-list", "-n", "1">>
    [] op = "diff-names" -> <<"git", "diff", "--name-only">>
    [] op = "status" -> <<"git", "status", "--porcelain">>
    [] op = "diff-tree" -> <<"git", "diff-tree", "--no-commit-id", "--name-only", "-r">>
    [] op = "diff" -> <<"git", "diff">>
    [] OTHER -> <<>>

\* One external interaction: the operation, the references on its command
\* line, whether it succeeded, and a summary of what it gave back (the commit
\* rev-list printed, "files" or "none" for a listing, "text" for a non-empty
\* diff, the answer typed at a prompt).
Call(op, refs, ok, out) ==
  [op |-> op, refs |-> refs, ok |-> ok, out |-> out, cmd |-> git_argv(op)]

Ceilings == 1..MaxCeiling

TokenCeilings == {0, MaxTokenCeiling}

\* --model
UserModel == "anthropic/claude-3-haiku"

\* main.py's parser has neither --since nor --yes.
ArgSets ==
  [file : {None, ReportFile},
   since_time : {NoText} \cup TimeTokens,
   since_commit : {None, UserCommit},
   yes : BOOLEAN,
   max_lines : Ceilings,
   model : {None, UserModel}]

\* The fields the Config dataclass of the package declares.
ConfigFields ==
  {"max_single_file_lines", "max_total_diff_lines", "supported_extensions",
   "default_model", "max_tokens", "temperature", "glow_style",
   "token_estimate_chars_per_token", "max_estimated_tokens"}

\* main.py's Config has no token ceiling: get_review compares with 100000.
ConfigSets ==
  [max_total_diff_lines : Ceilings,
   max_estimated_tokens : TokenCeilings]

\* Spec draws what a listing yields (changed_files_results) and does not keep
\* git's raw output.
Init ==
  /\ git_output = <<>>
  /\ parse_status = FALSE
  /\ prompt_sources = NoSources
  /\ line_count = NotCounted
  /\ impl \in {"main", "package"}
  /\ args \in ArgSets
  /\ impl = "main" => (args.since_time = NoText /\ args.yes = FALSE)
  /\ IF impl = "package" THEN config \in ConfigSets
     ELSE config \in [max_total_diff_lines : Ceilings, max_estimated_tokens : {100000}]
  \* The line ceiling a run never consults is left at its largest.
  /\ args.file = None => args.max_lines = MaxCeiling
  /\ args.file # None => config.max_total_diff_lines = MaxCeiling
  /\ pc = "check_git_repo"
  /\ diff_mode = None
  /\ since_commit = None
  /\ changed_files = <<>>
  /\ text = NoText
  /\ content = NoText
  /\ system_prompt = NoText
  /\ review = NoText
  /\ exc = NoExc
  /\ exit_code = NotExited
  /\ calls = <<>>

\* --------------------------------------------------------------- helpers
\* main(): except (FileError, LLMError, GitError) -> sys.exit(1);
\*         except UserCancelledError -> sys.exit(0)
exit_code_for_mut_all_fail(cls) == 1

exit_code_for(cls) == IF cls = "UserCancelledError" THEN 0 ELSE 1

\* A function's locals go when it returns or raises.
PopFrame ==
  /\ diff_mode' = None
  /\ since_commit' = None
  /\ changed_files' = <<>>
  /\ text' = NoText
  /\ system_prompt' = NoText

\* An exception reaches main(), which reports it and exits.
RaiseExc(e) ==
  /\ exc' = e
  /\ exit_code' = exit_code_for(e.cls)
  /\ pc' = "exit"
  /\ PopFrame
  /\ UNCHANGED <<git_output, parse_status, prompt_sources, line_count, impl, args, config, content, review>>

Raise(cls, why) == RaiseExc(Raised(cls, why))

\* review_single_file / review_git_changes returns c, and get_review(c) starts.
Return(c) ==
  /\ content' = c
  /\ pc' = "get_review"
  /\ PopFrame
  /\ UNCHANGED <<git_output, parse_status, prompt_sources, line_count, impl, args, config, review, exc, exit_code>>

Logged(op, refs, ok, out) == calls' = Append(calls, Call(op, refs, ok, out))

auto_confirm_mut_off == FALSE

\* if yes: pass (--yes exists in the package only)
auto_confirm == impl = "package" /\ args.yes

exceeds_mut_ge(count, ceiling) == count >= ceiling

\* line_count > max_lines; diff_lines > config.max_total_diff_lines
exceeds(count, ceiling) == count > ceiling

typed(response) == IF response = <<>> THEN "" ELSE response[1]

\* ------------------------------------------------------------ the driver
not_a_repository_mut_goes_on == "go on"

\* check_git_repo: except GitError: raise GitError("Not in a git repository");
\* main(): except GitError: sys.exit(1)
not_a_repository == "exit"

\* main(): git.check_git_repo(), then review_file or review_changes.
MainCheckGitRepo ==
  /\ pc = "check_git_repo"
  /\ \E ok \in BOOLEAN :
       /\ Logged("rev-parse", <<>>, ok, "")
       /\ IF ok \/ not_a_repository = "go on"
          THEN /\ pc' = IF args.file # None THEN "review_single_file"
                        ELSE "review_git_changes"
               /\ UNCHANGED <<git_output, parse_status, prompt_sources, line_count, impl, args, config, diff_mode, since_commit,
                              changed_files, text, content, system_prompt,
                              review, exc, exit_code>>
          ELSE Raise("GitError", "NotARepository")

\* ---------------------------------------------------- review_single_file
RsfExists ==
  /\ pc = "review_single_file"
  /\ \E exists \in BOOLEAN :
       /\ Logged("exists", <<>>, exists, "")
       /\ IF exists
          THEN /\ pc' = "rsf_read"
               /\ UNCHANGED <<git_output, parse_status, prompt_sources, line_count, impl, args, config, diff_mode, since_commit,
                              changed_files, text, content, system_prompt,
                              review, exc, exit_code>>
          ELSE Raise("FileError", "FileNotFound")

is_empty_file_mut_no_strip(c) == c = <<>>

\* if not content.strip(): raise FileError(f"File {filepath} is empty")
is_empty_file(c) == strip(c) = <<>>

RsfRead ==
  /\ pc = "rsf_read"
  /\ \E readable \in BOOLEAN, c \in Strings :
       /\ Logged("read", <<>>, readable, IF readable THEN c ELSE <<>>)
       /\ IF ~readable THEN Raise("FileError", "Unreadable")
          ELSE IF is_empty_file(c) THEN Raise("FileError", "EmptyFile")
          ELSE IF exceeds(count_lines(c), args.max_lines) /\ ~auto_confirm
          THEN /\ pc' = "rsf_confirm"
               /\ text' = c
               /\ UNCHANGED <<git_output, parse_status, prompt_sources, line_count, impl, args, config, diff_mode, since_commit,
                              changed_files, content, system_prompt, review,
                              exc, exit_code>>
          ELSE Return(c)

RsfConfirm ==
  /\ pc = "rsf_confirm"
  /\ \E response \in Responses :
       /\ Logged("input", <<>>, TRUE, typed(response))
       /\ IF user_confirms(response) THEN Return(text)
          ELSE Raise("UserCancelledError", "UserCancelled")

\* ------------------------------------------------------------- GitHelper
\* get_changed_files(since_commit): git diff --name-only <ref> HEAD when a
\* reference is given, else git status --porcelain.
listing_op(ref) == IF ref # None THEN "diff-names" ELSE "status"

listing_refs(ref) == IF ref # None THEN <<ref, "HEAD">> ELSE <<>>

changed_files_results(ref) ==
  IF ref # None
  THEN {extract_supported_files(o, FALSE) : o \in NameListings}
  ELSE {extract_supported_files(o, TRUE) : o \in StatusListings}

\* get_last_commit_files(): git diff-tree --no-commit-id --name-only -r HEAD
last_commit_files_results == {extract_supported_files(o, FALSE) : o \in NameListings}

found(files) == IF files # <<>> THEN "files" ELSE "none"

\* The except GitError clause of a GitHelper method: "raise" re-raises, "empty"
\* returns the empty value.
listing_on_failure_mut_empty == "empty"

listing_on_failure == "raise"

diff_on_failure == IF impl = "package" THEN "raise" ELSE "empty"

\* context_arg = f'-U{self.config.diff_context_lines}': evaluating it raises
\* AttributeError unless Config declares the field.  main.py passes no -U.
has_context_arg == impl = "main" \/ "diff_context_lines" \in ConfigFields

\* get_diff_content: the references of the diff command.
diff_refs(mode, ref) ==
  IF impl = "package" /\ mode = "since-commit" /\ ref # None THEN <<ref, "HEAD">>
  ELSE IF mode = "uncommitted" THEN <<"HEAD">>
  ELSE <<"HEAD^", "HEAD">>

\* ---------------------------------------------------- review_git_changes
returned_diff_mut_unwrapped(diff_content) == diff_content

\* The diff returned: the package wraps a non-empty diff in a fenced block.
returned_diff(diff_content) ==
  IF impl = "package" /\ diff_content # <<>> THEN wrap_diff(diff_content)
  ELSE diff_content

ref_after_lookup_mut_keep(commit_hash) == args.since_commit

ref_after_lookup_mut_fallback(commit_hash) ==
  IF commit_hash # "" THEN commit_hash ELSE args.since_commit

\* since_commit = commit_hash, or since_commit = None when no commit was found
ref_after_lookup(commit_hash) == IF commit_hash # "" THEN commit_hash ELSE None

\* diff_mode = "since-commit" if commit_hash else "uncommitted"
mode_after_lookup(commit_hash) ==
  IF commit_hash # "" THEN "since-commit" ELSE "uncommitted"

wants_uncommitted_retry_mut_always(since_time, mode) == TRUE

wants_uncommitted_retry_mut_never(since_time, mode) == FALSE

\* if since_time and diff_mode == "since-commit"
wants_uncommitted_retry(since_time, mode) ==
  truthy(since_time) /\ mode = "since-commit"

\* Where an empty primary listing leads.
after_empty_primary(mode) ==
  IF impl = "package" /\ wants_uncommitted_retry(args.since_time, mode)
  THEN "rgc_retry" ELSE "rgc_last"

no_changed_files_mut_unchecked(files) == FALSE

\* if not changed_files: raise FileError("Couldn't find any changed files")
no_changed_files(files) == files = <<>>

\* if since_time: commit_hash = git.get_commit_from_time(since_time)
RgcLookup ==
  /\ pc = "review_git_changes"
  /\ impl = "package"
  /\ truthy(args.since_time)
  /\ IF ~parses(args.since_time)
     THEN /\ RaiseExc(RaisedQuoting("GitError", "InvalidTimeFormat",
                                    normalised(args.since_time)))
          /\ UNCHANGED calls
     ELSE IF ~known_unit(normalised(args.since_time))
     THEN /\ RaiseExc(RaisedQuoting("GitError", "InvalidTimeUnit",
                                    <<unit_of(normalised(args.since_time))>>))
          /\ UNCHANGED calls
     ELSE IF date_out_of_range(normalised(args.since_time))
     THEN \* Neither a ValueError nor a GitError: get_commit_from_time lets it
          \* through, and so does main().
          /\ Raise("OverflowError", "DateOutOfRange")
          /\ UNCHANGED calls
     ELSE \E ok \in BOOLEAN, stdout \in {"", TimeCommit} :
            LET commit_hash == IF ok THEN stdout ELSE ""
                git_time == parse_time_duration(normalised(args.since_time))
            IN  /\ Logged("rev-list", <<git_time, "HEAD">>, ok, commit_hash)
                /\ IF ~ok /\ listing_on_failure = "raise"
                   THEN Raise("GitError", "VersionControlError")
                   ELSE /\ pc' = "rgc_primary"
                        /\ diff_mode' = mode_after_lookup(commit_hash)
                        /\ since_commit' = ref_after_lookup(commit_hash)
                        /\ UNCHANGED <<git_output, parse_status, prompt_sources, line_count, impl, args, config, changed_files, text,
                                       content, system_prompt, review, exc,
                                       exit_code>>

\* The first git.get_changed_files(...) of review_git_changes, in the mode the
\* flags select.
RgcPrimary ==
  /\ pc \in {"review_git_changes", "rgc_primary"}
  /\ pc = "review_git_changes" => (impl = "main" \/ ~truthy(args.since_time))
  /\ LET ref  == IF pc = "rgc_primary" THEN since_commit ELSE args.since_commit
         mode == IF pc = "rgc_primary" THEN diff_mode
                 ELSE IF impl = "package" /\ ref # None THEN "since-commit"
                 ELSE "uncommitted"
     IN  \E ok \in BOOLEAN, listed \in changed_files_results(ref) :
           LET files == IF ok THEN listed ELSE <<>>
           IN  /\ Logged(listing_op(ref), listing_refs(ref), ok,
                         IF ok THEN found(files) ELSE "")
               /\ IF ~ok /\ listing_on_failure = "raise"
                  THEN Raise("GitError", "VersionControlError")
                  ELSE /\ changed_files' = files
                       /\ diff_mode' = mode
                       /\ since_commit' = ref
                       /\ pc' = IF files = <<>> THEN after_empty_primary(mode)
                                ELSE "rgc_diff"
                       /\ UNCHANGED <<git_output, parse_status, prompt_sources, line_count, impl, args, config, text, content,
                                      system_prompt, review, exc, exit_code>>

\* uncommitted_files = git.get_changed_files()
RgcRetry ==
  /\ pc = "rgc_retry"
  /\ \E ok \in BOOLEAN, listed \in changed_files_results(None) :
       LET uncommitted_files == IF ok THEN listed ELSE <<>>
       IN  /\ Logged(listing_op(None), listing_refs(None), ok,
                     IF ok THEN found(uncommitted_files) ELSE "")
           /\ IF ~ok /\ listing_on_failure = "raise"
              THEN Raise("GitError", "VersionControlError")
              ELSE /\ IF uncommitted_files # <<>>
                      THEN /\ diff_mode' = "uncommitted"
                           /\ changed_files' = uncommitted_files
                           /\ since_commit' = None
                           /\ pc' = "rgc_diff"
                      ELSE /\ pc' = "rgc_last"
                           /\ UNCHANGED <<diff_mode, changed_files, since_commit>>
                   /\ UNCHANGED <<git_output, parse_status, prompt_sources, line_count, impl, args, config, text, content,
                                  system_prompt, review, exc, exit_code>>

\* diff_mode = "last-commit"; changed_files = git.get_last_commit_files();
\* if not changed_files: raise FileError("Couldn't find any changed files")
RgcLast ==
  /\ pc = "rgc_last"
  /\ \E ok \in BOOLEAN, listed \in last_commit_files_results :
       LET files == IF ok THEN listed ELSE <<>>
       IN  /\ Logged("diff-tree", <<"HEAD">>, ok, IF ok THEN found(files) ELSE "")
           /\ IF ~ok /\ listing_on_failure = "raise"
              THEN Raise("GitError", "VersionControlError")
              ELSE IF no_changed_files(files)
              THEN Raise("FileError", "NoChangedFiles")
              ELSE /\ diff_mode' = "last-commit"
                   /\ changed_files' = files
                   /\ pc' = "rgc_diff"
                   /\ UNCHANGED <<git_output, parse_status, prompt_sources, line_count, impl, args, config, since_commit, text,
                                  content, system_prompt, review, exc, exit_code>>

\* if diff_content: diff_lines = count_lines(diff_content); the confirmation
\* when it is over the ceiling; else, and after it, the return.
SizeCheck(diff_content) ==
  IF /\ diff_content # <<>>
     /\ exceeds(count_lines(diff_content), config.max_total_diff_lines)
     /\ ~auto_confirm
  THEN /\ pc' = "rgc_confirm"
       /\ text' = diff_content
       /\ UNCHANGED <<git_output, parse_status, prompt_sources, line_count, impl, args, config,
                      diff_mode, since_commit, changed_files, content,
                      system_prompt, review, exc, exit_code>>
  ELSE Return(returned_diff(diff_content))

no_files_mut_never(files) == FALSE

\* get_diff_content: if not files
no_files(files) == files = <<>>

\* diff_content = git.get_diff_content(changed_files, diff_mode, since_commit),
\* then the size check.
RgcDiff ==
  /\ pc = "rgc_diff"
  /\ IF no_files(changed_files)
     THEN \* get_diff_content: if not files: return ""
          /\ UNCHANGED calls
          /\ Return(returned_diff(<<>>))
     ELSE IF ~has_context_arg
     THEN \* Not a ReviewError: main() does not catch it, the interpreter
          \* prints the traceback and exits with 1.
          /\ UNCHANGED calls
          /\ Raise("AttributeError", "NoSuchConfigField")
     ELSE \E ok \in BOOLEAN, stdout \in Strings :
            LET diff_content == IF ok THEN strip(stdout) ELSE <<>>
            IN  /\ Logged("diff", diff_refs(diff_mode, since_commit), ok,
                          IF diff_content # <<>> THEN "text" ELSE "")
                /\ IF ~ok /\ diff_on_failure = "raise"
                   THEN Raise("GitError", "VersionControlError")
                   ELSE SizeCheck(diff_content)

RgcConfirm ==
  /\ pc = "rgc_confirm"
  /\ \E response \in Responses :
       /\ Logged("input", <<>>, TRUE, typed(response))
       /\ IF user_confirms(response) THEN Return(returned_diff(text))
          ELSE Raise("UserCancelledError", "UserCancelled")

\* ------------------------------------------------- CodeReviewer.get_review
\* config.max_estimated_tokens; main.py compares with the literal 100000.
max_estimated_tokens ==
  IF impl = "package" THEN config.max_estimated_tokens ELSE 100000

\* len(content + system_prompt) // self.config.token_estimate_chars_per_token
estimated_tokens(c, prompt) == Len(c \o prompt) \div token_estimate_chars_per_token

content_too_large_mut_never(c, prompt) == FALSE

\* if estimated_tokens > self.config.max_estimated_tokens: raise LLMError(...)
content_too_large(c, prompt) == estimated_tokens(c, prompt) > max_estimated_tokens

\* What completion() hands back, as far as get_review looks at it.
LLMContents == {NoText} \cup StringsUpTo(MaxAnswerLen)

\* A response without choices has no message, finish reason or cost to look
\* at, and a message without a content field has no content.
LLMResponses ==
  {r \in [has_choices : BOOLEAN, has_content_field : BOOLEAN,
          finish_reason : {"stop", "length"}, content : LLMContents,
          cost_error : {None, "no price for model"}] :
     /\ ~r.has_choices =>
          (~r.has_content_field /\ r.finish_reason = "stop" /\ r.cost_error = None)
     /\ ~r.has_content_field => r.content = NoText}

\* The checks without the one on finish_reason.
validate_response_mut_no_truncation(r) ==
  IF ~r.has_choices THEN "MalformedResponse"
  ELSE IF impl = "package" /\ r.cost_error # None THEN r.cost_error
  ELSE IF ~r.has_content_field THEN "MalformedResponse"
  ELSE IF r.content = NoText THEN "EmptyResponse"
  ELSE IF strip(r.content) = <<>> THEN "EmptyResponse"
  ELSE "ok"

\* The checks get_review makes on the response, in order; "ok" when all pass.
\* completion_cost(response) is called between the first and the second, and
\* may raise.
validate_response(r) ==
  IF ~r.has_choices THEN "MalformedResponse"
  ELSE IF impl = "package" /\ r.cost_error # None THEN r.cost_error
  ELSE IF ~r.has_content_field THEN "MalformedResponse"
  ELSE IF impl = "package" /\ r.finish_reason = "length" THEN "TruncatedResponse"
  ELSE IF r.content = NoText THEN "EmptyResponse"
  ELSE IF strip(r.content) = <<>> THEN "EmptyResponse"
  ELSE "ok"

\* What the try block raises for a failed check: LLMError for the checks of
\* get_review itself, the lower-level exception of completion_cost.
raised_in_try(kind) ==
  IF kind \in {"MalformedResponse", "TruncatedResponse", "EmptyResponse"}
  THEN Raised("LLMError", kind)
  ELSE LowLevel(kind)

wrap_as_llm_error_mut_bare(e) == e

\* except Exception as e: raise LLMError(f"Error getting review from LLM: {e}")
wrap_as_llm_error(e) ==
  [cls |-> "LLMError", why |-> e.why, n |-> e.n, wraps |-> e.cls, token |-> e.token]

\* config.default_model
default_model == "openai/o4-mini"

model_to_use_mut_default == default_model

\* model_to_use = model or self.config.default_model
model_to_use == IF args.model # None THEN args.model ELSE default_model

\* The trailer line "\n\nModel: {model_to_use} -- Cost: {formatted_cost}\n".
trailer == <<"\n", "\n", "Model: ", model_to_use, " -- Cost: ", "US$cost", "\n">>

\* The trimmed content; the package appends the trailer.
review_text(r) ==
  IF impl = "package" THEN strip(r.content) \o trailer ELSE strip(r.content)

\* system_prompt = get_system_prompt(...), then the token estimate.
GrPrompt ==
  /\ pc = "get_review"
  /\ \E readable \in {get_system_prompt(s).ok : s \in PromptSources},
        prompt \in Prompts :
       /\ Logged("read-prompt", <<>>, readable, "")
       /\ IF ~readable THEN Raise("FileError", "PromptNotFound")
          ELSE IF content_too_large(content, prompt)
          THEN RaiseExc(RaisedWith("LLMError", "ContentTooLarge",
                                   estimated_tokens(content, prompt)))
          ELSE /\ system_prompt' = prompt
               /\ pc' = "completion"
               /\ UNCHANGED <<git_output, parse_status, prompt_sources, line_count, impl, args, config, diff_mode, since_commit,
                              changed_files, text, content, review, exc, exit_code>>

\* response = completion(...), and what follows in the try block.
GrCompletion ==
  /\ pc = "completion"
  /\ \/ \E msg \in LowLevelMessages :
          /\ Logged("completion", <<model_to_use>>, FALSE, msg)
          /\ RaiseExc(wrap_as_llm_error(LowLevel(msg)))
     \/ \E r \in LLMResponses :
          /\ Logged("completion", <<model_to_use>>, TRUE, r)
          /\ IF validate_response(r) # "ok"
             THEN RaiseExc(wrap_as_llm_error(raised_in_try(validate_response(r))))
             ELSE /\ review' = review_text(r)
                  /\ pc' = "display"
                  /\ PopFrame
                  /\ UNCHANGED <<git_output, parse_status, prompt_sources, line_count, impl, args, config, content, exc, exit_code>>

\* display_review(review, config), and main() returns.
MainDisplay ==
  /\ pc = "display"
  /\ pc' = "exit"
  /\ exit_code' = 0
  /\ UNCHANGED <<git_output, parse_status, prompt_sources, line_count, impl, args, config, diff_mode, since_commit, changed_files,
                 text, content, system_prompt, review, exc, calls>>

Next ==
  \/ MainCheckGitRepo
  \/ RsfExists
  \/ RsfRead
  \/ RsfConfirm
  \/ RgcLookup
  \/ RgcPrimary
  \/ RgcRetry
  \/ RgcLast
  \/ RgcDiff
  \/ RgcConfirm
  \/ GrPrompt
  \/ GrCompletion
  \/ MainDisplay

Spec == Init /\ [][Next]_vars

\* ------------------------------------------------ the change locator alone
\* GitHelper.extract_supported_files applied to every listing git can print:
\* a status listing for the uncommitted mode (parse_status=True), a name-only
\* listing for the since-commit and last-commit modes (parse_status=False).
LocatorInit ==
  /\ diff_mode \in {"uncommitted", "since-commit", "last-commit"}
  /\ parse_status = (diff_mode = "uncommitted")
  /\ git_output \in (IF parse_status THEN StatusListings ELSE NameListings)
  /\ prompt_sources = NoSources
  /\ line_count = NotCounted
  /\ impl = "package"
  /\ args = CHOOSE a \in ArgSets : a.file = None
  /\ config = CHOOSE c \in ConfigSets : TRUE
  /\ pc = "extract_supported_files"
  /\ since_commit = None
  /\ changed_files = <<>>
  /\ text = NoText
  /\ content = NoText
  /\ system_prompt = NoText
  /\ review = NoText
  /\ exc = NoExc
  /\ exit_code = NotExited
  /\ calls = <<>>

ExtractSupportedFiles ==
  /\ pc = "extract_supported_files"
  /\ changed_files' = extract_supported_files(git_output, parse_status)
  /\ pc' = "extracted"
  /\ UNCHANGED <<git_output, parse_status, prompt_sources, line_count, impl, args, config, diff_mode,
                 since_commit, text, content, system_prompt, review, exc,
                 exit_code, calls>>

LocatorNext == ExtractSupportedFiles

LocatorSpec == LocatorInit /\ [][LocatorNext]_vars

\* -------------------------------------------------- the diff assembler alone
\* The file sets get_diff_content is called with: none, or files the locator
\* kept.
FileSets ==
  {extract_supported_files(o, FALSE) : o \in NameListings}

\* review_git_changes at its call of get_diff_content, with every file set,
\* mode and commit reference.
AssemblerInit ==
  /\ git_output = <<>>
  /\ parse_status = FALSE
  /\ prompt_sources = NoSources
  /\ line_count = NotCounted
  /\ impl \in {"main", "package"}
  /\ args \in [file : {None}, since_time : {NoText}, since_commit : {None, UserCommit},
               yes : {FALSE}, max_lines : {MaxCeiling}, model : {None}]
  /\ config \in [max_total_diff_lines : Ceilings,
                 max_estimated_tokens : {IF impl = "package" THEN MaxTokenCeiling
                                         ELSE 100000}]
  /\ pc = "rgc_diff"
  /\ diff_mode \in {"uncommitted", "since-commit", "last-commit"}
  /\ since_commit = args.since_commit
  /\ changed_files \in FileSets
  /\ text = NoText
  /\ content = NoText
  /\ system_prompt = NoText
  /\ review = NoText
  /\ exc = NoExc
  /\ exit_code = NotExited
  /\ calls = <<>>

AssemblerNext == RgcDiff \/ RgcConfirm

AssemblerSpec == AssemblerInit /\ [][AssemblerNext]_vars

\* ------------------------------------------- the size check and the wrapping
\* review_git_changes of the package from the return of get_diff_content on,
\* for every string it can be handed (git_output keeps the string).
WrapInit ==
  /\ git_output \in Strings
  /\ parse_status = FALSE
  /\ prompt_sources = NoSources
  /\ line_count = NotCounted
  /\ impl = "package"
  /\ args \in [file : {None}, since_time : {NoText}, since_commit : {None},
               yes : BOOLEAN, max_lines : {MaxCeiling}, model : {None}]
  /\ config \in [max_total_diff_lines : Ceilings,
                 max_estimated_tokens : {MaxTokenCeiling}]
  /\ pc = "got_diff_content"
  /\ diff_mode = "uncommitted"
  /\ since_commit = None
  /\ changed_files = <<a_py>>
  /\ text = git_output
  /\ content = NoText
  /\ system_prompt = NoText
  /\ review = NoText
  /\ exc = NoExc
  /\ exit_code = NotExited
  /\ calls = <<>>

RgcGotDiff ==
  /\ pc = "got_diff_content"
  /\ UNCHANGED calls
  /\ SizeCheck(text)

WrapNext == RgcGotDiff \/ RgcConfirm

WrapSpec == WrapInit /\ [][WrapNext]_vars

\* ------------------------------------------------------- count_lines alone
\* count_lines applied to a content, and applied again each time a blank line
\* was added to the content or taken out of it.
CountInit ==
  /\ git_output = <<>>
  /\ parse_status = FALSE
  /\ prompt_sources = NoSources
  /\ line_count = NotCounted
  /\ impl = "package"
  /\ args = CHOOSE a \in ArgSets : a.file = None
  /\ config = CHOOSE c \in ConfigSets : TRUE
  /\ pc = "count_lines"
  /\ diff_mode = None
  /\ since_commit = None
  /\ changed_files = <<>>
  /\ text \in CountInputs
  /\ content = NoText
  /\ system_prompt = NoText
  /\ review = NoText
  /\ exc = NoExc
  /\ exit_code = NotExited
  /\ calls = <<>>

CountLines ==
  /\ pc = "count_lines"
  /\ line_count' = count_lines(text)
  /\ pc' = "counted"
  /\ UNCHANGED <<git_output, parse_status, prompt_sources, impl, args, config,
                 diff_mode, since_commit, changed_files, text, content,
                 system_prompt, review, exc, exit_code, calls>>

\* The content changes by one blank line, and is counted again.
EditBlankLine ==
  /\ pc = "counted"
  /\ Len(calls) < MaxEdits
  /\ \/ \E k \in 1..(Len(split_lines(text)) + 1), blank \in BlankLines :
          /\ Len(with_blank_line(text, k, blank)) <= MaxLen
          /\ text' = with_blank_line(text, k, blank)
          /\ Logged("edit", <<>>, TRUE, "added")
     \/ \E k \in 1..Len(split_lines(text)) :
          /\ Len(split_lines(text)) > 1
          /\ strip(split_lines(text)[k]) = <<>>
          /\ text' = without_line(text, k)
          /\ Logged("edit", <<>>, TRUE, "removed")
  /\ pc' = "count_lines"
  /\ UNCHANGED <<git_output, parse_status, prompt_sources, line_count, impl, args,
                 config, diff_mode, since_commit, changed_files, content,
                 system_prompt, review, exc, exit_code>>

CountNext == CountLines \/ EditBlankLine

CountSpec == CountInit /\ [][CountNext]_vars

\* -------------------------------------------------- the prompt lookup alone
\* get_system_prompt called with and without a prompt_file, in every state of
\* the three files.
PromptInit ==
  /\ git_output = <<>>
  /\ parse_status = FALSE
  /\ prompt_sources \in PromptSources
  /\ line_count = NotCounted
  /\ impl = "package"
  /\ args = CHOOSE a \in ArgSets : a.file = None
  /\ config = CHOOSE c \in ConfigSets : TRUE
  /\ pc = "get_system_prompt"
  /\ diff_mode = None
  /\ since_commit = None
  /\ changed_files = <<>>
  /\ text = NoText
  /\ content = NoText
  /\ system_prompt = NoText
  /\ review = NoText
  /\ exc = NoExc
  /\ exit_code = NotExited
  /\ calls = <<>>

GetSystemPrompt ==
  /\ pc = "get_system_prompt"
  /\ LET got == get_system_prompt(prompt_sources)
     IN  \E prompt \in Prompts :
           /\ Logged("read-prompt", got.tried, got.ok,
                     IF got.ok THEN got.source ELSE "")
           /\ IF ~got.ok THEN Raise("FileError", "PromptNotFound")
              ELSE /\ system_prompt' = prompt
                   /\ pc' = "got_system_prompt"
                   /\ UNCHANGED <<git_output, parse_status, prompt_sources, line_count, impl,
                                  args, config, diff_mode, since_commit,
                                  changed_files, text, content, review, exc,
                                  exit_code>>

PromptNext == GetSystemPrompt

PromptSpec == PromptInit /\ [][PromptNext]_vars

\* ------------------------------------------------- the time resolver alone
\* review_git_changes of the package entered with every --since token, up to
\* the end of git.get_commit_from_time.
ResolverInit ==
  /\ git_output = <<>>
  /\ parse_status = FALSE
  /\ prompt_sources = NoSources
  /\ line_count = NotCounted
  /\ impl = "package"
  /\ args \in [file : {None}, since_time : ResolverTokens, since_commit : {None},
               yes : {FALSE}, max_lines : {MaxCeiling}, model : {None}]
  /\ config = CHOOSE c \in ConfigSets : TRUE
  /\ pc = "review_git_changes"
  /\ diff_mode = None
  /\ since_commit = None
  /\ changed_files = <<>>
  /\ text = NoText
  /\ content = NoText
  /\ system_prompt = NoText
  /\ review = NoText
  /\ exc = NoExc
  /\ exit_code = NotExited
  /\ calls = <<>>

ResolverNext == RgcLookup

ResolverSpec == ResolverInit /\ [][ResolverNext]_vars

\* ---------------------------------------------------------------- claims
CallIdx(ops) == {i \in 1..Len(calls) : calls[i].op \in ops}

Count(ops) == Cardinality(CallIdx(ops))

ListingOps == {"status", "diff-names", "diff-tree"}

VcOps == ListingOps \cup {"rev-parse", "rev-list", "diff"}

\* The listings of the run, in order.
Listings == SelectSeq(calls, LAMBDA c : c.op \in ListingOps)

RgcPcs ==
  {"review_git_changes", "rgc_primary", "rgc_retry", "rgc_last", "rgc_diff",
   "rgc_confirm"}

GitRun == args.file = None

VersionControlError == Raised("GitError", "VersionControlError")

NoChangedFiles == Raised("FileError", "NoChangedFiles")

UserCancelled == Raised("UserCancelledError", "UserCancelled")

\* Resolution returned a content string.
Resolved == content # NoText

\* How far review_git_changes is from its end.
rgc_rank(p) ==
  CASE p = "review_git_changes" -> 6
    [] p = "rgc_primary" -> 5
    [] p = "rgc_retry" -> 4
    [] p = "rgc_last" -> 3
    [] p = "rgc_diff" -> 2
    [] p = "rgc_confirm" -> 1
    [] OTHER -> 0

\* The inputs C1 ranges over: every tool invocation succeeds, the time
\* expression is well-formed, and the user does not decline.
C1_Inputs ==
  /\ \A i \in CallIdx(VcOps) : calls[i].ok
  /\ \A i \in CallIdx({"input"}) : calls[i].out \in {"y", "Y"}
  /\ args.since_time # NoText => parses(args.since_time)

\* A step of review_git_changes moves it strictly nearer its end.
C1_Progress == pc \in RgcPcs => rgc_rank(pc') < rgc_rank(pc)

\* C1: resolution of the changes git reports is total.  Every step of
\* review_git_changes moves it strictly nearer its end (it never loops and is
\* never stuck); a run makes at most one commit lookup, three file listings
\* and one diff; and when every tool succeeds and the user does not decline
\* it ends in Resolved or in NoChangedFiles.
C1_ResolutionIsTotal ==
  /\ [][C1_Progress]_vars
  /\ [](/\ Count({"rev-list"}) <= 1
        /\ Count(ListingOps) <= 3
        /\ Count({"diff"}) <= 1
        /\ pc \in RgcPcs => ENABLED Next
        /\ (GitRun /\ C1_Inputs /\ pc \notin RgcPcs \cup {"check_git_repo"})
             => (Resolved \/ exc = NoChangedFiles))

\* C2: a failed diff command is fatal.  Whenever the diff invocation fails,
\* the run ends with VersionControlError and resolution returns nothing.
C2_DiffFailureIsFatal ==
  \A i \in CallIdx({"diff"}) :
    ~calls[i].ok => (exc = VersionControlError /\ ~Resolved)

\* review_git_changes is about to call get_diff_content(changed_files,
\* diff_mode, since_commit).
AboutToDiff == pc = "rgc_diff"

\* The time expression resolved to a commit.
TimeResolvedRun ==
  \E i \in CallIdx({"rev-list"}) : calls[i].ok /\ calls[i].out # ""

EmptyListing(c) == c.ok /\ c.out = "none"

\* Every diff of the run was made with these references.
DiffsUse(refs) == \A i \in CallIdx({"diff"}) : calls[i].refs = refs

\* C3: when the commit came from the time expression and the listing since
\* that commit is empty, the next listing is the uncommitted one; if it finds
\* files the diff is asked for in the uncommitted mode with no commit
\* reference, and only if it finds none is the last commit listed, and its
\* files diffed in the last-commit mode.
C3_TimeModeRetriesUncommitted ==
  (TimeResolvedRun /\ Len(Listings) >= 1 /\ EmptyListing(Listings[1])) =>
    \/ Len(Listings) = 1 /\ pc \in {"rgc_retry", "exit"}
    \/ /\ Len(Listings) >= 2
       /\ Listings[2].op = "status"
       /\ (Listings[2].ok /\ Listings[2].out = "files") =>
            /\ Len(Listings) = 2
            /\ AboutToDiff => (diff_mode = "uncommitted" /\ since_commit = None)
            /\ changed_files # <<>> \/ pc = "exit"
       /\ EmptyListing(Listings[2]) =>
            /\ Len(Listings) = 2 => pc = "rgc_last"
            /\ Len(Listings) = 3 => Listings[3].op = "diff-tree"
            /\ AboutToDiff => diff_mode = "last-commit"
       /\ Len(Listings) = 3 => EmptyListing(Listings[2])

\* The retry found files, and their uncommitted diff is asked for.
C3_Witness ==
  /\ TimeResolvedRun
  /\ Len(Listings) = 2
  /\ EmptyListing(Listings[1])
  /\ Listings[2].out = "files"
  /\ AboutToDiff
  /\ diff_mode = "uncommitted"
  /\ since_commit = None

\* C4: when the commit was given explicitly, or the mode is Uncommitted (no
\* flag, or a time expression that found no commit), an empty listing is
\* followed directly by the last-commit listing: one further listing, and it
\* is never the uncommitted retry.
C4_OtherModesFallBackDirectly ==
  (GitRun /\ ~TimeResolvedRun /\ Len(Listings) >= 1 /\ EmptyListing(Listings[1])) =>
    /\ Len(Listings) <= 2
    /\ Len(Listings) = 1 => pc \in {"rgc_last", "exit"}
    /\ Len(Listings) = 2 => Listings[2].op = "diff-tree"
    /\ Len(Listings) = 2 => DiffsUse(<<"HEAD^", "HEAD">>)

\* An explicit commit, nothing since it, and the last commit's files found.
C4_Witness ==
  /\ impl = "package"
  /\ args.since_commit = UserCommit
  /\ args.since_time = NoText
  /\ Len(Listings) = 2
  /\ EmptyListing(Listings[1])
  /\ Listings[1].op = "diff-names"
  /\ Listings[2].op = "diff-tree"
  /\ Listings[2].out = "files"
  /\ AboutToDiff

\* C5: with a time expression, the first thing asked of git after the
\* repository check is the commit at or before that time.  A commit found
\* becomes the reference of the listing and the one the diff is asked for
\* with (mode since-commit); none found leaves the uncommitted mode with no
\* reference, and the run goes on to the listing.
C5_TimeExpressionSelectsMode ==
  /\ (GitRun /\ impl = "package" /\ args.since_time # NoText
        /\ parses(args.since_time) /\ Len(calls) >= 2)
       => calls[2].op = "rev-list"
  /\ \A i \in CallIdx({"rev-list"}) :
       calls[i].ok =>
         LET commit == calls[i].out
         IN  /\ i = Len(calls) =>
                  /\ exc = NoExc
                  /\ pc = "rgc_primary"
                  /\ diff_mode = IF commit # "" THEN "since-commit" ELSE "uncommitted"
                  /\ since_commit = IF commit # "" THEN commit ELSE None
             /\ i < Len(calls) =>
                  /\ calls[i + 1].op = IF commit # "" THEN "diff-names" ELSE "status"
                  /\ calls[i + 1].refs = IF commit # "" THEN <<commit, "HEAD">> ELSE <<>>
             /\ (i + 1 = Len(calls) /\ calls[i + 1].out = "files") =>
                  \/ /\ AboutToDiff
                     /\ diff_mode = IF commit # "" THEN "since-commit" ELSE "uncommitted"
                     /\ since_commit = IF commit # "" THEN commit ELSE None
                     /\ diff_refs(diff_mode, since_commit) =
                          IF commit # "" THEN <<commit, "HEAD">> ELSE <<"HEAD">>
                  \/ pc = "exit"

\* A commit was found, files were listed since it, and the diff against it
\* is asked for, the commit given on the command line notwithstanding.
C5_Witness ==
  /\ args.since_commit = UserCommit
  /\ TimeResolvedRun
  /\ calls[Len(calls)].op = "diff-names"
  /\ calls[Len(calls)].refs = <<TimeCommit, "HEAD">>
  /\ AboutToDiff
  /\ since_commit = TimeCommit

\* C6: when the last-commit listing is empty too, the run ends with
\* NoChangedFiles, and neither the diff nor a confirmation (nor anything
\* after them) happens in it.
C6_NoChangedFilesAfterAllFallbacks ==
  /\ \A i \in CallIdx({"diff-tree"}) :
       EmptyListing(calls[i]) => (exc = NoChangedFiles /\ i = Len(calls))
  /\ exc = NoChangedFiles =>
       /\ calls # <<>>
       /\ calls[Len(calls)].op = "diff-tree"
       /\ EmptyListing(calls[Len(calls)])
       /\ \A i \in 1..Len(Listings) : ~Listings[i].ok \/ Listings[i].out = "none"
       /\ Count({"diff", "input", "read-prompt", "completion"}) = 0
       /\ ~Resolved
       /\ pc = "exit"

\* All three listings were empty.
C6_Witness == exc = NoChangedFiles /\ Len(Listings) = 3

\* C7: a failed commit lookup or file listing is the last thing the run
\* does: it ends with VersionControlError, with nothing resolved.
C7_ToolFailurePropagates ==
  \A i \in CallIdx(ListingOps \cup {"rev-list"}) :
    ~calls[i].ok =>
      /\ i = Len(calls)
      /\ exc = VersionControlError
      /\ ~Resolved
      /\ pc = "exit"

\* The last-commit listing failed, after an empty time-resolved listing and
\* an empty uncommitted retry.
C7_Witness ==
  /\ Len(Listings) = 3
  /\ ~Listings[3].ok
  /\ Listings[2].op = "status"

\* The lines the ceiling is compared with: the file's, or the diff's before
\* it is wrapped.
resolved_lines ==
  IF GitRun /\ impl = "package" /\ content # <<>>
  THEN count_lines(SubSeq(content, 9, Len(content) - 4))
  ELSE count_lines(content)

ceiling == IF GitRun THEN config.max_total_diff_lines ELSE args.max_lines

Confirmed == \E i \in CallIdx({"input"}) : calls[i].out \in {"y", "Y"}

\* C8: content over its ceiling is resolved only with --yes or after the user
\* confirmed; with --yes nothing is asked and the run is never cancelled;
\* an answer other than y cancels the run.
C8_OversizeNeedsConfirmation ==
  /\ (Resolved /\ resolved_lines > ceiling) => (args.yes \/ Confirmed)
  /\ args.yes => (Count({"input"}) = 0 /\ exc.cls # "UserCancelledError")
  /\ \A i \in CallIdx({"input"}) :
       calls[i].out \notin {"y", "Y"} => (exc = UserCancelled /\ ~Resolved)
  /\ exc.cls = "UserCancelledError" =>
       (calls[Len(calls)].op = "input" /\ calls[Len(calls)].out \notin {"y", "Y"})

\* Oversize content went through on --yes.
C8_Witness == Resolved /\ resolved_lines > ceiling /\ args.yes

\* C9: a confirmation is asked only when the line count is strictly greater
\* than the ceiling; content at or below it resolves with nothing asked.
C9_ThresholdIsStrict ==
  /\ pc = "rsf_confirm" => count_lines(text) > args.max_lines
  /\ pc = "rgc_confirm" => count_lines(text) > config.max_total_diff_lines
  /\ (Resolved /\ resolved_lines <= ceiling) => Count({"input"}) = 0

\* A file exactly at the ceiling, resolved without --yes and without a prompt.
C9_Witness ==
  /\ ~GitRun
  /\ ~args.yes
  /\ Resolved
  /\ resolved_lines = args.max_lines
  /\ Count({"input"}) = 0

\* C10: the completion call is made only with an estimate within the ceiling;
\* an estimate over it ends the run with LLMError "content too large" naming
\* the estimate, and no completion call is made in that run.
C10_TokenGuardBeforeSubmission ==
  /\ pc = "completion" =>
       estimated_tokens(content, system_prompt) <= max_estimated_tokens
  /\ Count({"completion"}) > 0 => exc.why # "ContentTooLarge"
  /\ exc.why = "ContentTooLarge" =>
       /\ exc.cls = "LLMError"
       /\ exc.n > max_estimated_tokens
       /\ Count({"completion"}) = 0
       /\ pc = "exit"

\* The guard rejected a file of the package's run, under a ceiling of 0.
C10_Witness ==
  /\ exc.why = "ContentTooLarge"
  /\ ~GitRun
  /\ impl = "package"
  /\ config.max_estimated_tokens = 0

\* The completion calls of the run that handed back a response.
Answered == {i \in CallIdx({"completion"}) : calls[i].ok}

\* The failure the ordered checks of the design give for a response.
first_failing_check(r) ==
  IF ~r.has_choices THEN "MalformedResponse"
  ELSE IF ~r.has_content_field THEN "MalformedResponse"
  ELSE IF r.finish_reason = "length" THEN "TruncatedResponse"
  ELSE IF r.content = NoText THEN "EmptyResponse"
  ELSE IF strip(r.content) = <<>> THEN "EmptyResponse"
  ELSE "ok"

\* The cost of the response could be computed (it is not asked for when the
\* response has no choices).
Priced(r) == r.cost_error = None

C12_RequestIsNonEmpty ==
  (pc = "completion" /\ impl = "package") =>
    (content # <<>> /\ system_prompt # <<>>)

\* The lines of the listing that name a path.
LinesNaming(f) == {i \in 1..Len(git_output) : git_output[i].name = f}

\* The files the locator returned.
Located == {changed_files[i] : i \in 1..Len(changed_files)}

FileNotFound == Raised("FileError", "FileNotFound")

EmptyFile == Raised("FileError", "EmptyFile")

C15_ExplicitFileNeedsNoRepository ==
  ~GitRun =>
    /\ Count(VcOps) = 0
    /\ exc.why # "NotARepository"
    /\ pc \notin RgcPcs

\* C16: whatever completion() or the processing of its response raises, the
\* run ends with an LLMError that carries the message of what was raised; no
\* exception of another class leaves get_review once the call was made.
C16_DispatchErrorsAreWrapped ==
  /\ \A i \in CallIdx({"completion"}) :
       /\ ~calls[i].ok =>
            /\ exc.cls = "LLMError"
            /\ exc.wraps = "Exception"
            /\ exc.why = calls[i].out
            /\ review = NoText
       /\ (calls[i].ok /\ impl = "package" /\ calls[i].out.has_choices
            /\ ~Priced(calls[i].out)) =>
            /\ exc.cls = "LLMError"
            /\ exc.wraps = "Exception"
            /\ exc.why = calls[i].out.cost_error
            /\ review = NoText
  /\ (Count({"completion"}) > 0 /\ exc # NoExc) => exc.cls = "LLMError"

\* The cost of a well-formed response could not be computed, and the run
\* ended with an LLMError saying so.
C16_Witness ==
  \E i \in Answered :
    /\ first_failing_check(calls[i].out) = "ok"
    /\ ~Priced(calls[i].out)
    /\ exc.cls = "LLMError"
    /\ exc.why = "no price for model"

\* s is r with the white space around it taken off, and is not empty.
IsTrimOf(s, r) ==
  \E a, b \in 1..Len(r) :
    /\ a <= b
    /\ s = SubSeq(r, a, b)
    /\ \A k \in (1..(a - 1)) \cup ((b + 1)..Len(r)) : r[k] \in {" ", "\n", "\t"}
    /\ r[a] \notin {" ", "\n", "\t"}
    /\ r[b] \notin {" ", "\n", "\t"}

\* C17: a review get_review of the package returns is the content of the
\* response with the surrounding white space taken off, not empty, followed
\* by the trailer naming the model the call was made with (the one given on
\* the command line, else the configured default) and the cost; the response
\* it comes from is not truncated and its content is neither null nor blank.
C17_SuccessfulReturnIsTrimmedWithTrailer ==
  (impl = "package" /\ review # NoText) =>
    /\ Answered = {Len(calls)}
    /\ LET r == calls[Len(calls)].out
           used == calls[Len(calls)].refs[1]
           body == SubSeq(review, 1, Len(review) - 7)
       IN  /\ r.finish_reason # "length"
           /\ r.content # NoText
           /\ Len(review) > 7
           /\ IsTrimOf(body, r.content)
           /\ SubSeq(review, Len(review) - 6, Len(review)) =
                <<"\n", "\n", "Model: ", used, " -- Cost: ", "US$cost", "\n">>
           /\ used = IF args.model # None THEN args.model ELSE "openai/o4-mini"

\* A review of a response padded with a newline, under a model named on the
\* command line.
C17_Witness ==
  /\ impl = "package"
  /\ review # NoText
  /\ args.model = UserModel
  /\ calls[Len(calls)].out.content = <<"x", "\n">>
  /\ review[1] = "x"
  /\ review[4] = "Model: "

\* The tokens of the design: "today", or digits followed by one of h, m, d.
IsTimeToken(t) ==
  \/ t = <<"t", "o", "d", "a", "y">>
  \/ /\ Len(t) >= 2
     /\ t[Len(t)] \in {"h", "m", "d"}
     /\ \A i \in 1..(Len(t) - 1) :
          t[i] \in {"0", "1", "2", "3", "4", "5", "6", "7", "8", "9"}

\* The token with the white space around it taken off and H written h.
Normal(t) ==
  LET inner == {i \in 1..Len(t) : t[i] # " "}
      lo == CHOOSE i \in inner : \A j \in inner : i <= j
      hi == CHOOSE i \in inner : \A j \in inner : j <= i
  IN  IF inner = {} THEN <<>>
      ELSE [k \in 1..(hi - lo + 1) |-> IF t[lo + k - 1] = "H" THEN "h" ELSE t[lo + k - 1]]

InvalidTimeFormat(t) == RaisedQuoting("GitError", "InvalidTimeFormat", t)

LookedUp == Count({"rev-list"}) > 0

\* C18 as stated: a token that is not literally one of the design's tokens
\* fails with InvalidTimeFormat and no commit lookup is made for it.
C18_OnlyLiteralTokensAccepted ==
  (pc # "review_git_changes" /\ ~IsTimeToken(args.since_time)) =>
    (exc.why = "InvalidTimeFormat" /\ ~LookedUp)

\* C18, amended: the resolver takes the white space around the token off and
\* lower-cases it; a token that then is "today" or digits followed by one of
\* h, m, d is never refused as InvalidTimeFormat, and any other ends the run
\* with InvalidTimeFormat quoting the token so normalised, with no commit
\* lookup.
C18_NormalisedTokensAccepted ==
  pc # "review_git_changes" =>
    IF IsTimeToken(Normal(args.since_time))
    THEN exc.why # "InvalidTimeFormat"
    ELSE /\ exc = InvalidTimeFormat(Normal(args.since_time))
         /\ ~LookedUp
         /\ calls = <<>>
         /\ pc = "exit"

\* "-2h" was refused, quoting it.
C18_Witness == exc = InvalidTimeFormat(<<"-", "2", "h">>) /\ ~LookedUp

\* The failures C19 names.
PropagatedErrors ==
  {"NotARepository", "VersionControlError", "FileNotFound", "EmptyFile",
   "ContentTooLarge", "MalformedResponse", "TruncatedResponse", "EmptyResponse",
   "timeout", "rate limited", "no price for model"}

\* C19: the process exits with 0 after a displayed review and after a
\* cancellation by the user, and with 1 after any error that reached main();
\* it has no exit code before that.
C19_ExitCodes ==
  /\ pc # "exit" => (exit_code = NotExited /\ exc = NoExc)
  /\ pc = "exit" =>
       /\ exit_code \in {0, 1}
       /\ exc = NoExc => (exit_code = 0 /\ review # NoText)
       /\ exc.cls = "UserCancelledError" => exit_code = 0
       /\ exc.why \in PropagatedErrors => exit_code = 1
       /\ exit_code = 1 => (exc # NoExc /\ exc.cls # "UserCancelledError")

\* The user declined an oversize diff and the process exited with 0.
C19_Witness ==
  /\ pc = "exit"
  /\ GitRun
  /\ exc = UserCancelled
  /\ exit_code = 0

\* The candidates of the design, in priority order.
Candidates ==
  IF prompt_sources.prompt_file # None THEN <<"explicit", "home", "bundled">>
  ELSE <<"home", "bundled">>

Usable(k) == prompt_sources[Candidates[k]] = "readable"

\* The lookup is over.
PromptLookedUp == pc \in {"got_system_prompt", "exit"}

Winner == calls[1].out

\* C20 as stated: the first candidate that exists and can be read wins,
\* whichever candidates before it are missing or unreadable, and the lookup
\* fails only when no candidate is usable.
C20_FirstUsableSourceWins ==
  PromptLookedUp =>
    IF \E k \in 1..Len(Candidates) : Usable(k)
    THEN /\ calls[1].ok
         /\ \E k \in 1..Len(Candidates) :
              /\ Usable(k)
              /\ \A j \in 1..(k - 1) : ~Usable(j)
              /\ Winner = Candidates[k]
    ELSE ~calls[1].ok /\ exc.cls = "FileError"

\* C20, amended: a prompt file named on the command line is the only
\* candidate: it wins if it exists and can be read, and otherwise the lookup
\* fails without looking at the others.  Without one, the home-directory file
\* wins if it exists and can be read, else the bundled file if it exists and
\* can be read, and the lookup fails only when neither is usable.
C20_ExplicitPromptIsFinal ==
  PromptLookedUp =>
    /\ IF prompt_sources.prompt_file # None
       THEN /\ calls[1].refs = <<"explicit">>
            /\ calls[1].ok = (prompt_sources.explicit = "readable")
            /\ calls[1].ok => Winner = "explicit"
       ELSE /\ calls[1].ok =
                 (prompt_sources.home = "readable" \/ prompt_sources.bundled = "readable")
            /\ calls[1].ok =>
                 Winner = IF prompt_sources.home = "readable" THEN "home" ELSE "bundled"
            /\ calls[1].refs =
                 IF prompt_sources.home = "readable" THEN <<"home">>
                 ELSE <<"home", "bundled">>
    /\ ~calls[1].ok =>
         (exc = Raised("FileError", "PromptNotFound") /\ system_prompt = NoText)
    /\ calls[1].ok => (exc = NoExc /\ system_prompt # NoText)

\* The home file cannot be read and the bundled one was used.
C20_Witness ==
  /\ PromptLookedUp
  /\ prompt_sources.prompt_file = None
  /\ prompt_sources.home = "unreadable"
  /\ Winner = "bundled"

NotARepository == Raised("GitError", "NotARepository")

\* What the change locator and the diff assembler ask of git.
LocatorAndDiffOps == ListingOps \cup {"rev-list", "diff"}

\* C21: the first thing a run asks of git is whether the directory is in a
\* repository, and a listing, a commit lookup or a diff is made only after
\* that check passed; when it fails the run ends there with NotARepository
\* and exit code 1, having asked git nothing else.
C21_RepositoryCheckComesFirst ==
  /\ calls # <<>> => calls[1].op = "rev-parse"
  /\ \A i \in CallIdx(LocatorAndDiffOps) : i > 1 /\ calls[1].ok
  /\ pc \in RgcPcs => (Len(calls) >= 1 /\ calls[1].ok)
  /\ (calls # <<>> /\ ~calls[1].ok) =>
       /\ exc = NotARepository
       /\ Len(calls) = 1
       /\ Count(LocatorAndDiffOps) = 0
       /\ ~Resolved
       /\ pc = "exit"
       /\ exit_code = 1
  /\ exc = NotARepository => ~calls[1].ok

\* A run for the changes git reports ended at the failed repository check.
C21_Witness ==
  /\ GitRun
  /\ exc = NotARepository
  /\ Len(calls) = 1
  /\ pc = "exit"

\* Resolution is over, and its last listing found files to diff.
FilesWereFound ==
  /\ GitRun
  /\ pc \notin RgcPcs \cup {"check_git_repo"}
  /\ Listings # <<>>
  /\ Listings[Len(Listings)].ok
  /\ Listings[Len(Listings)].out = "files"

\* The references of the diff that belongs to a listing: the listing's own
\* range for the files since a commit, the head for the uncommitted files, the
\* head's parent and the head for the files of the last commit.
refs_by_mode(listing) ==
  IF listing.op = "diff-names" THEN listing.refs
  ELSE IF listing.op = "status" THEN <<"HEAD">>
  ELSE <<"HEAD^", "HEAD">>

\* C22: once the package's resolution found files, it issued exactly one
\* diff command (with the context lines the configuration names), over the
\* references its mode selects, and the command either gave its output or
\* ended the run with VersionControlError.
C22_OneDiffByMode ==
  (FilesWereFound /\ impl = "package") =>
    /\ Count({"diff"}) = 1
    /\ \A i \in CallIdx({"diff"}) :
         /\ calls[i].refs = refs_by_mode(Listings[Len(Listings)])
         /\ IF calls[i].ok THEN exc.cls # "GitError"
            ELSE exc = VersionControlError
    /\ exc.cls \in {None, "GitError", "UserCancelledError", "FileError", "LLMError"}

\* C23: get_diff_content called with no files runs no command and returns
\* the empty string, whatever the mode and the commit reference: the step
\* leaves the record of invocations as it was, raises nothing, and what
\* resolution returns is empty.
C23_EmptyFileSetRunsNothing ==
  [][(pc = "rgc_diff" /\ changed_files = <<>>) =>
       (calls' = calls /\ content' = <<>> /\ exc' = NoExc /\ pc' = "get_review")]_vars

\* The empty file set, with a commit reference, gave the empty content
\* without a command.
C23_Witness ==
  /\ pc = "get_review"
  /\ impl = "package"
  /\ args.since_commit = UserCommit
  /\ calls = <<>>
  /\ content = <<>>

\* The diff between an opening fence line and a closing fence line.
Fenced(diff) ==
  <<"BQ", "BQ", "BQ", "d", "i", "f", "f", "\n">> \o diff \o <<"\n", "BQ", "BQ", "BQ">>

\* The number of lines of a text that hold a character other than white space.
NonBlankLines(t) ==
  LET breaks == {0, Len(t) + 1} \cup {i \in 1..Len(t) : t[i] = "\n"}
  IN  Cardinality({b \in breaks \ {Len(t) + 1} :
        LET e == CHOOSE n \in breaks : n > b /\ \A m \in breaks : m > b => n <= m
        IN  \E k \in (b + 1)..(e - 1) : t[k] \notin {" ", "\n", "\t"}})

\* C24: what the package's review_git_changes returns for a non-empty diff
\* is the diff between an opening fence line and a closing fence line, and
\* nothing else; the confirmation is asked for exactly when the diff itself
\* has more non-blank lines than the ceiling, so that the two fence lines do
\* not count.
C24_FencedDiffCeilingOnRawLines ==
  /\ Resolved =>
       content = IF git_output = <<>> THEN <<>> ELSE Fenced(git_output)
  /\ (pc # "got_diff_content" /\ ~args.yes) =>
       ((Count({"input"}) > 0 \/ pc = "rgc_confirm")
          <=> NonBlankLines(git_output) > config.max_total_diff_lines)
  /\ args.yes => (Count({"input"}) = 0 /\ pc # "rgc_confirm")

\* A diff of exactly as many lines as the ceiling was returned fenced with
\* nothing asked, although the fenced text has two lines more.
C24_Witness ==
  /\ Resolved
  /\ ~args.yes
  /\ Count({"input"}) = 0
  /\ NonBlankLines(git_output) = config.max_total_diff_lines
  /\ NonBlankLines(content) = config.max_total_diff_lines + 2
  /\ content = Fenced(git_output)

\* The names of the listing, in the order git printed them.
NamesListed == [i \in 1..Len(git_output) |-> git_output[i].name]

\* s can be had from t by leaving elements out.
IsSubsequence(s, t) ==
  \E pick \in [1..Len(s) -> 1..Len(t)] :
    /\ \A i \in 1..Len(s) : t[pick[i]] = s[i]
    /\ \A i, j \in 1..Len(s) : i < j => pick[i] < pick[j]

\* C25: what the locator returns is the names of the listing with some left
\* out: the same order, no name that the listing does not hold, and, the
\* listing naming a path once, no path twice.
C25_LocatorKeepsDiscoveryOrder ==
  pc = "extracted" =>
    /\ IsSubsequence(changed_files, NamesListed)
    /\ \A i, j \in 1..Len(changed_files) :
         i # j => changed_files[i] # changed_files[j]

\* Two files were kept in the order of the listing, which is not the
\* alphabetical one.
C25_Witness ==
  /\ pc = "extracted"
  /\ Len(git_output) = 2
  /\ git_output[1].name = b_js
  /\ git_output[2].name = a_py
  /\ changed_files = <<b_js, a_py>>

\* C26: count_lines gives the number of lines, as the newlines divide the
\* content, that hold a character other than white space; the count after a
\* blank line (empty, or white space only) was added or taken out is the
\* count before.
C26_CountIsNonBlankLines ==
  /\ [](pc = "counted" => line_count = NonBlankLines(text))
  /\ [][(pc = "count_lines" /\ line_count # NotCounted) => line_count' = line_count]_vars

\* A line of one space was added after the only line, and the count is
\* still 1.
C26_Witness ==
  /\ pc = "counted"
  /\ calls = <<Call("edit", <<>>, TRUE, "added")>>
  /\ text = <<"x", "\n", " ">>
  /\ line_count = 1

\* The git commands that only read the repository.
ReadOnlyQueries == {"rev-parse", "rev-list", "diff", "status", "diff-tree"}

\* What a run does besides asking git.
OtherOps == {"exists", "read", "input", "read-prompt", "completion"}

\* C27: whatever a run asks of git, at any point of any run, is one of the
\* queries rev-parse, rev-list, diff, status and diff-tree, which read the
\* repository and do not change it; everything else a run does is not asked
\* of git.
C27_OnlyReadOnlyQueries ==
  \A i \in 1..Len(calls) :
    IF calls[i].op \in VcOps
    THEN /\ Len(calls[i].cmd) >= 2
         /\ calls[i].cmd[1] = "git"
         /\ calls[i].cmd[2] \in ReadOnlyQueries
    ELSE /\ calls[i].op \in OtherOps
         /\ calls[i].cmd = <<>>

\* A run that made the repository check, two listings and a diff, and
\* displayed its review.
C27_Witness ==
  /\ pc = "exit"
  /\ exit_code = 0
  /\ Count({"rev-parse"}) = 1
  /\ Count({"status"}) = 1
  /\ Count({"diff-tree"}) = 1
  /\ Count({"diff"}) = 1

\* The tokens C28 is about: digits followed by h, m or d.
IsAmountToken(t) ==
  /\ Len(t) >= 2
  /\ t[Len(t)] \in {"h", "m", "d"}
  /\ \A i \in 1..(Len(t) - 1) :
       t[i] \in {"0", "1", "2", "3", "4", "5", "6", "7", "8", "9"}

\* The time the commit lookup was made for.
TimeLookedUp == calls[1].refs[1]

\* C28: every token of digits followed by h, m or d resolves: the commit
\* lookup is made, for the time that lies the token's amount of hours,
\* minutes or days before now.
C28_EveryAmountResolves ==
  (pc # "review_git_changes" /\ IsAmountToken(args.since_time)) =>
    /\ LookedUp
    /\ Now - TimeLookedUp =
         amount_of(args.since_time) * unit_minutes(unit_of(args.since_time))

\* The confirmations of the run that were declined.
Declined == {i \in CallIdx({"input"}) : calls[i].out \notin {"y", "Y"}}

\* C29: a declined confirmation is the last thing a run does.  It ends the
\* run with UserCancelled and exit code 0; nothing is asked of git after it,
\* no prompt file is read, no completion call is made, and nothing is
\* resolved or reviewed.
C29_DeclineEndsTheRun ==
  /\ [](/\ \A i \in Declined :
            /\ i = Len(calls)
            /\ exc = UserCancelled
            /\ pc = "exit"
        /\ exc = UserCancelled =>
            /\ Declined = {Len(calls)}
            /\ Count({"read-prompt", "completion"}) = 0
            /\ ~Resolved
            /\ review = NoText
            /\ exit_code = 0)
  /\ [][exc = UserCancelled => UNCHANGED vars]_vars

\* The user answered the confirmation for an oversize file with the return
\* key alone, and the run ended there.
C29_Witness ==
  /\ ~GitRun
  /\ impl = "package"
  /\ exc = UserCancelled
  /\ calls[Len(calls)] = Call("input", <<>>, TRUE, "")
  /\ pc = "exit"

\* The listings and diffs of the run made with the commit given on the
\* command line.
UsesUserCommit ==
  {i \in CallIdx(ListingOps \cup {"diff"}) :
     \E k \in 1..Len(calls[i].refs) : calls[i].refs[k] = UserCommit}

TimeSupplied == args.since_time # NoText /\ args.since_time # <<>>

\* C30: with a time expression, the commit given on the command line is in
\* no listing and no diff, and once the lookup is over the reference
\* resolution works with is the commit the lookup found or none; a listing
\* or diff with the commit given on the command line is made only in a run
\* without a time expression.
C30_TimeExpressionOutranksCommit ==
  /\ TimeSupplied =>
       /\ UsesUserCommit = {}
       /\ pc \in RgcPcs \ {"review_git_changes"} => since_commit \in {None, TimeCommit}
       /\ \A i \in CallIdx({"diff-names"}) : calls[i].refs = <<TimeCommit, "HEAD">>
  /\ UsesUserCommit # {} => (~TimeSupplied /\ args.since_commit = UserCommit)

\* Both were given, the lookup found no commit, and the uncommitted files
\* were listed and are to be diffed with no reference.
C30_Witness ==
  /\ TimeSupplied
  /\ args.since_commit = UserCommit
  /\ Count({"rev-list"}) = 1
  /\ ~TimeResolvedRun
  /\ Listings # <<>>
  /\ Listings[1].op = "status"
  /\ pc = "rgc_diff"
  /\ since_commit = None

====
